---- MODULE Spec2Model ----
(***************************************************************************)
(* A model of blake_superfast.py (the superfastmatch match/fragment        *)
(* correlator and the matrix relation index) and of blake_xml.py (the      *)
(* transcription text extractor).                                          *)
(*                                                                         *)
(* Python strings are sequences of one-character strings, so that split,   *)
(* join, slicing, int() and whitespace normalisation are computed and not  *)
(* assumed.  A call's outcome is a record [kind, val]: kind "return" with  *)
(* the returned value, or kind "raise" with the exception's name.          *)
(***************************************************************************)
EXTENDS Integers, Sequences, FiniteSets, TLC

VARIABLES
    csvRows,      \* the rows csv.DictReader yields for the relation table
    matrices,     \* MatrixRelations.matrices: [set, dict]
    exclusions,   \* the class attribute SuperfastDocmatch.exclusions: [set, dict]
    match,        \* the SuperfastDocmatch object of the latest constructor call
    fragCalls,    \* what successive fragments() calls on match produced
    fdoc,         \* the document a MatchFragment is cut from
    xml,          \* the object as parsed from the file: [tag, tail, parent, text]
    parent,       \* the element tree's parent links (mutated by text())
    ntext,        \* the elements' .text (mutated by text())
    outputs,      \* what successive text() calls returned
    relations,    \* the file blake-relations.csv: [exists, rows]
    docRows,      \* documents['rows'] of each document of the server, by docid
    outfile,      \* the exported csv file: [exists, header, rows]
    last          \* the latest call: [op, args, res]

vars == <<csvRows, matrices, exclusions, match, fragCalls, fdoc,
          xml, parent, ntext, outputs, relations, docRows, outfile, last>>

\* ------------------------------------------------------------------------
\* Python values

Return(v) == [kind |-> "return", val |-> v]

Raise(e) == [kind |-> "raise", val |-> e]

NoCall == [op |-> "none", args |-> <<>>, res |-> Return("None")]

\* dict()
EmptyDict == [k \in {} |-> <<>>]

\* d[k] = v
DictSet(d, k, v) == [x \in (DOMAIN d) \cup {k} |-> IF x = k THEN v ELSE d[x]]

\* d.get(k, [])
DictGet(d, k) == IF k \in DOMAIN d THEN d[k] ELSE <<>>

\* x in lst
InList(x, lst) == \E i \in 1..Len(lst) : lst[i] = x

\* An attribute that has not been assigned, and one that holds a dict.
Unset == [set |-> FALSE, dict |-> EmptyDict]

Attr(d) == [set |-> TRUE, dict |-> d]

\* s.split(sep) with an explicit one-character separator: empty pieces are kept.
RECURSIVE split(_, _)
split(s, sep) ==
    IF \A i \in 1..Len(s) : s[i] # sep
    THEN <<s>>
    ELSE LET i == CHOOSE i \in 1..Len(s) :
                      s[i] = sep /\ \A j \in 1..(i - 1) : s[j] # sep
         IN  <<SubSeq(s, 1, i - 1)>> \o split(SubSeq(s, i + 1, Len(s)), sep)

\* sep.join(lst)
RECURSIVE join(_, _)
join(lst, sep) ==
    IF lst = <<>> THEN <<>>
    ELSE IF Len(lst) = 1 THEN lst[1]
    ELSE lst[1] \o <<sep>> \o join(Tail(lst), sep)

\* ------------------------------------------------------------------------
\* MatrixRelations

MaxRows == 3

\* The descriptor ids of the relation table's desc_id column, and the ones
\* same_matrix is asked about ("c" has no row of its own).
RowIds == {<<"a">>, <<"b">>}

QueryIds == {<<"a">>, <<"b">>, <<"c">>}

\* The same_matrix_ids column: empty, one id, several ids, an empty piece.
FieldSet == {<<>>, <<"a">>, <<"b">>, <<"b", ",", "c">>, <<"c", ",">>}

RowSet == [desc_id : RowIds, same_matrix_ids : FieldSet]

RECURSIVE SeqsUpTo(_, _)
SeqsUpTo(S, n) ==
    IF n = 0 THEN {<<>>}
    ELSE LET shorter == SeqsUpTo(S, n - 1)
         IN  shorter \cup {Append(q, x) : q \in {r \in shorter : Len(r) = n - 1}, x \in S}

\* A mutant of load_row: assigns instead of accumulating.
load_row_overwrite(m, row) ==
    IF row.same_matrix_ids = <<>> THEN m
    ELSE DictSet(m, row.desc_id, split(row.same_matrix_ids, ","))

\* The body of load_relations' loop for one row.
load_row(m, row) ==
    IF row.same_matrix_ids = <<>> THEN m
    ELSE LET same_matrix_ids == split(row.same_matrix_ids, ",")
         IN  IF row.desc_id \in DOMAIN m
             THEN [m EXCEPT ![row.desc_id] = @ \o same_matrix_ids]
             ELSE DictSet(m, row.desc_id, same_matrix_ids)

RECURSIVE load_loop(_, _, _)
load_loop(rows, i, m) ==
    IF i > Len(rows) THEN m
    ELSE load_loop(rows, i + 1, load_row(m, rows[i]))

load_relations(rows) == load_loop(rows, 1, EmptyDict)

\* MatrixRelations.same_matrix(doc, otherdoc), on the two desc_ids.
same_matrix(m, doc, otherdoc) ==
    IF otherdoc \notin DOMAIN m
    THEN Return("False")                  \* "in None" raises TypeError: caught
    ELSE IF InList(doc, m[otherdoc]) THEN Return("True") ELSE Return("False")

\* MatrixRelations(csv_path): __init__ loads the table.
LoadRelations ==
    /\ matrices' = Attr(load_relations(csvRows))
    /\ last' = [op |-> "load_relations", args |-> <<>>, res |-> Return("None")]
    /\ UNCHANGED <<relations, docRows, outfile>>
    /\ UNCHANGED <<csvRows, exclusions, match, fragCalls, fdoc,
                   xml, parent, ntext, outputs>>

SameMatrix ==
    /\ matrices.set
    /\ \E a \in QueryIds, b \in QueryIds :
          last' = [op |-> "same_matrix", args |-> <<a, b>>,
                   res |-> same_matrix(matrices.dict, a, b)]
    /\ UNCHANGED <<relations, docRows, outfile>>
    /\ UNCHANGED <<csvRows, matrices, exclusions, match, fragCalls, fdoc,
                   xml, parent, ntext, outputs>>

\* ------------------------------------------------------------------------
\* Documents, matches and fragments

Max(x, y) == IF x >= y THEN x ELSE y

Min(x, y) == IF x <= y THEN x ELSE y

\* lst[:-1]
AllButLast(lst) == SubSeq(lst, 1, Len(lst) - 1)

\* s[lo:hi] on a string or list, with Python's handling of negative and
\* out-of-range indices: clamp, never raise.
PySlice(s, lo, hi) ==
    LET n == Len(s)
        nlo == IF lo < 0 THEN Max(lo + n, 0) ELSE Min(lo, n)
        nhi == IF hi < 0 THEN Max(hi + n, 0) ELSE Min(hi, n)
    IN  SubSeq(s, nlo + 1, nhi)

\* A fragment descriptor's field as the json gives it: an integer, or text.
IntField(v) == [kind |-> "int", n |-> v, s |-> <<>>]

TextField(t) == [kind |-> "str", n |-> 0, s |-> t]

DigitChars == <<"0", "1", "2", "3", "4", "5", "6", "7", "8", "9">>

DigitVal(c) == (CHOOSE i \in 1..Len(DigitChars) : DigitChars[i] = c) - 1

\* int() of decimal text.
RECURSIVE ParseDigits(_)
ParseDigits(t) ==
    IF Len(t) = 1 THEN DigitVal(t[1])
    ELSE 10 * ParseDigits(AllButLast(t)) + DigitVal(t[Len(t)])

\* int(x)
PyInt(x) == IF x.kind = "int" THEN x.n ELSE ParseDigits(x.s)

\* BlakeDoc.parse_title: desc_id is the title without its last dot segment.
desc_id_of(title) == join(AllButLast(split(title, ".")), ".")

BlakeDoc(docid, title, text) ==
    [doctype |-> 1, docid |-> docid, title |-> title, text |-> text,
     desc_id |-> desc_id_of(title)]

\* Python's None against a value held by an attribute.
None == <<>>

Some(v) == <<v>>

\* A mutant of parse_title: takes the first four of five or more segments.
parse_title_five_or_more(title) ==
    LET parts == split(title, ".")
    IN  IF Len(parts) >= 5
        THEN [desc_id |-> desc_id_of(title),
              work |-> Some(parts[1]), copy |-> Some(parts[2]),
              form |-> Some(parts[3]), page |-> Some(parts[4])]
        ELSE [desc_id |-> desc_id_of(title),
              work |-> None, copy |-> None, form |-> None, page |-> None]

\* BlakeDoc.parse_title: the attributes it sets. Unpacking the segments
\* into five names raises ValueError, before any name is bound, unless there
\* are exactly five.
parse_title(title) ==
    LET parts == split(title, ".")
    IN  IF Len(parts) = 5
        THEN [desc_id |-> desc_id_of(title),
              work |-> Some(parts[1]), copy |-> Some(parts[2]),
              form |-> Some(parts[3]), page |-> Some(parts[4])]
        ELSE [desc_id |-> desc_id_of(title),
              work |-> None, copy |-> None, form |-> None, page |-> None]

\* SuperfastDoc.fragment(begin, length)
fragment(doc, begin, length) == PySlice(doc.text, begin, begin + length)

\* A mutant of MatchFragment: cuts at the primary-text offset lst[0].
MatchFragment_primary_offset(doc, lst) ==
    [doc |-> doc, lst |-> lst, begin |-> PyInt(lst[1]), length |-> PyInt(lst[3]),
     text |-> fragment(doc, PyInt(lst[1]), PyInt(lst[3]))]

\* MatchFragment.__init__(doc, fragment_list); Python's lst[1] and lst[2]
\* are the second and third items.
MatchFragment(doc, lst) ==
    [doc |-> doc, lst |-> lst, begin |-> PyInt(lst[2]), length |-> PyInt(lst[3]),
     text |-> fragment(doc, PyInt(lst[2]), PyInt(lst[3]))]

\* The documents the superfastmatch server holds, by docid.
ServerDocIds == {1, 2, 3}

ServerDoc(docid) ==
    CASE docid = 1 -> BlakeDoc(1, <<"a", ".", "t">>, <<"x", "y", "\n", "z">>)
      [] docid = 2 -> BlakeDoc(2, <<"b", ".", "t">>, <<"y", "z">>)
      [] docid = 3 -> BlakeDoc(3, <<"c", ".", "t">>, <<>>)

Docs == {ServerDoc(i) : i \in ServerDocIds}

MaxFrags == 2

\* Fragment descriptors of the match rows: (primary offset, counterpart
\* offset, length, hash), numbers or numeric text, one past the text's end.
RowFragments ==
    {<<IntField(0), IntField(1), IntField(2), IntField(7)>>,
     <<IntField(1), TextField(<<"0">>), TextField(<<"1">>), IntField(8)>>,
     <<IntField(0), IntField(3), IntField(5), IntField(9)>>}

\* The rows of documents['rows']: the counterpart's identity and the fragments.
MatchRows ==
    [doctype : {1}, docid : ServerDocIds, fragments : SeqsUpTo(RowFragments, MaxFrags)]

NoRow == [doctype |-> 0, docid |-> 0, fragments |-> <<>>]

\* A SuperfastDocmatch object; has_data says whether self.data was assigned.
Docmatch(primary_doc, matching_doc, has_data, data) ==
    [made |-> TRUE, primary_doc |-> primary_doc, matching_doc |-> matching_doc,
     has_data |-> has_data, data |-> data]

\* No object: the constructor raised, or was never called.
NoMatch ==
    [made |-> FALSE, primary_doc |-> BlakeDoc(0, <<>>, <<>>),
     matching_doc |-> BlakeDoc(0, <<>>, <<>>), has_data |-> FALSE, data |-> NoRow]

\* A mutant of Docmatch_init: accepts a call that supplies neither argument.
Docmatch_init_unchecked(primary_doc, row_dct, match_doc) ==
    IF match_doc # <<>>
    THEN Docmatch(primary_doc, match_doc[1], FALSE, NoRow)
    ELSE IF row_dct # <<>>
    THEN Docmatch(primary_doc, ServerDoc(row_dct[1].docid), TRUE, row_dct[1])
    ELSE Docmatch(primary_doc, BlakeDoc(0, <<>>, <<>>), FALSE, NoRow)

\* SuperfastDocmatch.__init__(primary_doc, row_dct, match_doc): an argument is
\* <<>> for None and <<x>> for x.  The object, or NoMatch when it raises
\* ValueError.
Docmatch_init(primary_doc, row_dct, match_doc) ==
    IF match_doc # <<>>
    THEN Docmatch(primary_doc, match_doc[1], FALSE, NoRow)
    ELSE IF row_dct # <<>>
    THEN Docmatch(primary_doc, ServerDoc(row_dct[1].docid), TRUE, row_dct[1])
    ELSE NoMatch

\* A mutant of excluded: without the class attribute it answers None.
excluded_unset_none(excl, m) ==
    IF ~excl.set THEN Return("None")
    ELSE IF excl.dict = EmptyDict THEN Raise("ValueError")
    ELSE IF \/ InList(m.matching_doc.desc_id, DictGet(excl.dict, m.primary_doc.desc_id))
            \/ InList(m.primary_doc.desc_id, DictGet(excl.dict, m.matching_doc.desc_id))
    THEN Return("True")
    ELSE Return("None")

\* SuperfastDocmatch.excluded(): self.exclusions is the class attribute; the
\* lookup raises AttributeError when it was never assigned, and an empty
\* dict is falsy.  The method has no return on the other path: None.
excluded(excl, m) ==
    IF ~excl.set THEN Raise("AttributeError")
    ELSE IF excl.dict = EmptyDict THEN Raise("ValueError")
    ELSE IF \/ InList(m.matching_doc.desc_id, DictGet(excl.dict, m.primary_doc.desc_id))
            \/ InList(m.primary_doc.desc_id, DictGet(excl.dict, m.matching_doc.desc_id))
    THEN Return("True")
    ELSE Return("None")

\* list(match.fragments()): self.data is read when the generator is made.
fragments(m) ==
    IF ~m.has_data THEN Raise("AttributeError")
    ELSE Return([i \in 1..Len(m.data.fragments) |->
                    MatchFragment(m.matching_doc, m.data.fragments[i])])

\* bool(x) of the values the methods return.
Truthy(v) == v = "True"

\* The relation tables an index is attached from: no rows, only rows with
\* an empty same_matrix_ids, one-way and reciprocal relations.
ExclusionTables ==
    {<<>>,
     <<[desc_id |-> <<"a">>, same_matrix_ids |-> <<>>]>>,
     <<[desc_id |-> <<"a">>, same_matrix_ids |-> <<"b">>]>>,
     <<[desc_id |-> <<"b">>, same_matrix_ids |-> <<"a">>]>>,
     <<[desc_id |-> <<"a">>, same_matrix_ids |-> <<"b", ",", "c">>],
       [desc_id |-> <<"c">>, same_matrix_ids |-> <<"a">>]>>}

MaxCalls == 2

\* SuperfastDocmatch.exclusions = MatrixRelations(matrix_csv_path).matrices
AttachExclusions ==
    /\ \E rows \in ExclusionTables :
          exclusions' = Attr(load_relations(rows))
    /\ last' = [op |-> "attach", args |-> <<>>, res |-> Return("None")]
    /\ UNCHANGED <<relations, docRows, outfile>>
    /\ UNCHANGED <<csvRows, matrices, match, fragCalls, fdoc,
                   xml, parent, ntext, outputs>>

\* One match object is followed: the constructor is called until it has
\* made one.
NewMatch ==
    /\ ~match.made
    /\ \E primary_doc \in Docs :
       \E row_dct \in {<<>>} \cup {<<r>> : r \in MatchRows} :
       \E match_doc \in {<<>>} \cup {<<d>> : d \in Docs} :
          LET m == Docmatch_init(primary_doc, row_dct, match_doc)
          IN  /\ match' = m
              /\ last' = [op |-> "new", args |-> <<primary_doc, row_dct, match_doc>>,
                          res |-> IF m.made THEN Return("None")
                                  ELSE Raise("ValueError")]
    /\ fragCalls' = <<>>
    /\ UNCHANGED <<relations, docRows, outfile>>
    /\ UNCHANGED <<csvRows, matrices, exclusions, fdoc,
                   xml, parent, ntext, outputs>>

Excluded ==
    /\ match.made
    /\ last' = [op |-> "excluded", args |-> <<>>, res |-> excluded(exclusions, match)]
    /\ UNCHANGED <<relations, docRows, outfile>>
    /\ UNCHANGED <<csvRows, matrices, exclusions, match, fragCalls, fdoc,
                   xml, parent, ntext, outputs>>

Fragments ==
    /\ match.made
    /\ Len(fragCalls) < MaxCalls
    /\ fragCalls' = Append(fragCalls, fragments(match))
    /\ last' = [op |-> "fragments", args |-> <<>>, res |-> fragments(match)]
    /\ UNCHANGED <<relations, docRows, outfile>>
    /\ UNCHANGED <<csvRows, matrices, exclusions, match, fdoc,
                   xml, parent, ntext, outputs>>

\* Values of the variables a specification does not use.
NoDoc == BlakeDoc(0, <<>>, <<>>)

NoXml == [tag |-> <<>>, tail |-> <<>>, parent |-> <<>>, text |-> <<>>]

IdleRelations == csvRows = <<>> /\ matrices = Unset

IdleMatch == exclusions = Unset /\ match = NoMatch /\ fragCalls = <<>>

IdleFragment == fdoc = NoDoc

IdleXml == xml = NoXml /\ parent = <<>> /\ ntext = <<>> /\ outputs = <<>>

\* A file that is not there.
NoFile == [exists |-> FALSE, rows |-> <<>>]

NoOutfile == [exists |-> FALSE, header |-> FALSE, rows |-> <<>>]

IdleExport == relations = NoFile /\ docRows = <<>> /\ outfile = NoOutfile

InitRelations ==
    /\ csvRows \in SeqsUpTo(RowSet, MaxRows)
    /\ matrices = Unset
    /\ last = NoCall
    /\ IdleMatch /\ IdleFragment /\ IdleXml /\ IdleExport

NextRelations == LoadRelations \/ SameMatrix

SpecRelations == InitRelations /\ [][NextRelations]_vars

InitMatch ==
    /\ exclusions = Unset
    /\ match = NoMatch
    /\ fragCalls = <<>>
    /\ last = NoCall
    /\ IdleRelations /\ IdleFragment /\ IdleXml /\ IdleExport

NextMatch == AttachExclusions \/ NewMatch \/ Excluded \/ Fragments

SpecMatch == InitMatch /\ [][NextMatch]_vars

\* ------------------------------------------------------------------------
\* MatchFragment on its own: any document text, any descriptor

MaxTextLen == 3

MaxOff == 4

TextChars == {"x", "\n"}

\* str(v) of a number below 100, and the same text with a leading zero.
StrOf(v) ==
    IF v < 10 THEN <<DigitChars[v + 1]>>
    ELSE <<DigitChars[(v \div 10) + 1], DigitChars[(v % 10) + 1]>>

\* The forms a number takes in a fragment descriptor.
FieldForms(v) == {IntField(v), TextField(StrOf(v)), TextField(<<"0">> \o StrOf(v))}

OffsetFields == UNION {FieldForms(v) : v \in 0..MaxOff}

Descriptors ==
    {<<p, b, n, IntField(7)>> : p \in {IntField(0), IntField(2)},
                                b \in OffsetFields, n \in OffsetFields}

\* One fragment is cut per document.
NewFragment ==
    /\ last.op = "none"
    /\ \E lst \in Descriptors :
          last' = [op |-> "MatchFragment", args |-> <<lst>>,
                   res |-> Return(MatchFragment(fdoc, lst))]
    /\ UNCHANGED <<relations, docRows, outfile>>
    /\ UNCHANGED <<csvRows, matrices, exclusions, match, fragCalls, fdoc,
                   xml, parent, ntext, outputs>>

InitFragment ==
    /\ \E text \in SeqsUpTo(TextChars, MaxTextLen) :
          fdoc = BlakeDoc(1, <<"a", ".", "t">>, text)
    /\ last = NoCall
    /\ IdleRelations /\ IdleMatch /\ IdleXml /\ IdleExport

NextFragment == NewFragment

SpecFragment == InitFragment /\ [][NextFragment]_vars

\* ------------------------------------------------------------------------
\* BlakeDoc.parse_title on its own: any title

MaxSegments == 6

\* The dot segments titles are made of.
TitleSegments == {<<>>, <<"a">>, <<"b", "c">>}

Titles == {join(segs, ".") : segs \in SeqsUpTo(TitleSegments, MaxSegments) \ {<<>>}}

\* The constructor parses the title of the document once.
ParseTitle ==
    /\ last.op = "none"
    /\ last' = [op |-> "parse_title", args |-> <<fdoc.title>>,
                res |-> Return(parse_title(fdoc.title))]
    /\ UNCHANGED <<relations, docRows, outfile>>
    /\ UNCHANGED <<csvRows, matrices, exclusions, match, fragCalls, fdoc,
                   xml, parent, ntext, outputs>>

InitTitle ==
    /\ \E title \in Titles : fdoc = BlakeDoc(1, title, <<>>)
    /\ last = NoCall
    /\ IdleRelations /\ IdleMatch /\ IdleXml /\ IdleExport

NextTitle == ParseTitle

SpecTitle == InitTitle /\ [][NextTitle]_vars

\* ------------------------------------------------------------------------
\* BlakeSuperfast.export_fragments and the __main__ driver

MaxMatches == 2

\* str.replace(old, new) for a one-character old.
RECURSIVE replace(_, _, _)
replace(s, old, new) ==
    IF s = <<>> THEN <<>>
    ELSE (IF Head(s) = old THEN new ELSE <<Head(s)>>) \o replace(Tail(s), old, new)

\* MatchFragment.text_cleaned()
text_cleaned(f) == replace(f.text, "\n", <<"<", "b", "r", ">">>)

\* The rows of documents['rows'] the export is run on: two fragments, one
\* fragment, no fragment.
ExportRows ==
    {[doctype |-> 1, docid |-> 2,
      fragments |-> <<<<IntField(0), IntField(1), IntField(2), IntField(7)>>,
                      <<IntField(1), TextField(<<"0">>), TextField(<<"1">>), IntField(8)>>>>],
     [doctype |-> 1, docid |-> 1,
      fragments |-> <<<<IntField(0), IntField(1), IntField(2), IntField(7)>>>>],
     [doctype |-> 1, docid |-> 3, fragments |-> <<>>]}

\* SuperfastAPI.documents(): every document of the server, in listing order.
documents == <<ServerDoc(1), ServerDoc(2), ServerDoc(3)>>

\* The csv rows one fragment list gives.
fragment_rows(primary_doc, frags) ==
    [i \in 1..Len(frags) |->
        <<primary_doc.desc_id, frags[i].doc.desc_id, text_cleaned(frags[i])>>]

\* The body of the loop over primary_doc.matches() for one row: the rows
\* written, or the exception excluded() raised.  excluded() is called
\* only when matrix_csv_path is truthy.
match_rows(excl, matrix_csv_path, primary_doc, row) ==
    LET m == Docmatch_init(primary_doc, Some(row), None)
        ex == IF matrix_csv_path # None THEN excluded(excl, m) ELSE Return("None")
    IN  IF ex.kind = "raise" THEN [res |-> ex, rows |-> <<>>]
        ELSE IF matrix_csv_path # None /\ Truthy(ex.val)
        THEN [res |-> Return("None"), rows |-> <<>>]
        ELSE [res |-> Return("None"),
              rows |-> fragment_rows(primary_doc, fragments(m).val)]

\* for match in primary_doc.matches(): from the j-th row on.
RECURSIVE matches_loop(_, _, _, _, _, _)
matches_loop(excl, matrix_csv_path, primary_doc, rows, j, written) ==
    IF j > Len(rows) THEN [res |-> Return("None"), rows |-> written]
    ELSE LET step == match_rows(excl, matrix_csv_path, primary_doc, rows[j])
         IN  IF step.res.kind = "raise" THEN [res |-> step.res, rows |-> written]
             ELSE matches_loop(excl, matrix_csv_path, primary_doc, rows, j + 1,
                               written \o step.rows)

\* for primary_doc in iterator: from the i-th document on.
RECURSIVE documents_loop(_, _, _, _, _, _)
documents_loop(excl, matrix_csv_path, iterator, drows, i, written) ==
    IF i > Len(iterator) THEN [res |-> Return("None"), rows |-> written]
    ELSE LET inner == matches_loop(excl, matrix_csv_path, iterator[i],
                                   drows[iterator[i].docid], 1, written)
         IN  IF inner.res.kind = "raise" THEN inner
             ELSE documents_loop(excl, matrix_csv_path, iterator, drows, i + 1,
                                 inner.rows)

\* export_fragments(filename, matrix_csv_path=...): the outcome, the class
\* attribute and the output file it leaves.  MatrixRelations opens the
\* relation table before the output file is opened for writing.
export_fragments(excl, relfile, drows, out, matrix_csv_path) ==
    IF matrix_csv_path # None /\ ~relfile.exists
    THEN [res |-> Raise("FileNotFoundError"), exclusions |-> excl, outfile |-> out]
    ELSE LET attached == IF matrix_csv_path # None
                         THEN Attr(load_relations(relfile.rows)) ELSE excl
             loop == documents_loop(attached, matrix_csv_path, documents, drows, 1, <<>>)
         IN  [res |-> loop.res, exclusions |-> attached,
              outfile |-> [exists |-> TRUE, header |-> TRUE, rows |-> loop.rows]]

matrix_relations_file == "blake-relations.csv"

\* API.export_fragments(outfile, matrix_csv_path=...)
ExportFragments ==
    \E matrix_csv_path \in {None, Some(matrix_relations_file)} :
        LET r == export_fragments(exclusions, relations, docRows, outfile, matrix_csv_path)
        IN  /\ exclusions' = r.exclusions
            /\ outfile' = r.outfile
            /\ last' = [op |-> "export_fragments", args |-> <<matrix_csv_path>>,
                        res |-> r.res]
            /\ UNCHANGED <<relations, docRows>>
            /\ UNCHANGED <<csvRows, matrices, match, fragCalls, fdoc,
                           xml, parent, ntext, outputs>>

\* The __main__ block: one export with the relation table, and a
\* FileNotFoundError caught and reported.
Main ==
    LET r == export_fragments(exclusions, relations, docRows, outfile,
                              Some(matrix_relations_file))
    IN  /\ exclusions' = r.exclusions
        /\ outfile' = r.outfile
        /\ last' = [op |-> "main", args |-> <<>>,
                    res |-> IF r.res = Raise("FileNotFoundError")
                            THEN Return("None") ELSE r.res]
        /\ UNCHANGED <<relations, docRows>>
        /\ UNCHANGED <<csvRows, matrices, match, fragCalls, fdoc,
                       xml, parent, ntext, outputs>>

\* Document 3 is listed without matches.
InitExport ==
    /\ relations \in {NoFile} \cup {[exists |-> TRUE, rows |-> t] : t \in ExclusionTables}
    /\ docRows \in {d \in [ServerDocIds -> SeqsUpTo(ExportRows, MaxMatches)] : d[3] = <<>>}
    /\ outfile = NoOutfile
    /\ exclusions = Unset
    /\ last = NoCall
    /\ match = NoMatch /\ fragCalls = <<>>
    /\ IdleRelations /\ IdleFragment /\ IdleXml

NextExport == ExportFragments \/ Main

SpecExport == InitExport /\ [][NextExport]_vars

\* ------------------------------------------------------------------------
\* XMLObject.text()
\*
\* The object's elements are numbered 1..n in document order; parent[e] is
\* the element e is a child of, Root for a child of the phystext container
\* and Detached once e was removed from its parent.  An element's tail is
\* the text that follows its end tag; lxml's remove() takes the tail away
\* with the element.

MaxNodes == 3

MaxTextCalls == 2

Root == 0

Detached == -1

Tags == {"l", "note", "space", "hi"}

\* Element .text and .tail as parsed: nothing, a letter, whitespace.
TextSet == {<<>>, <<"a">>, <<" ">>}

TailSet == {<<>>, <<"b">>, <<"\n">>}

\* Python's whitespace, for \s, strip() and rstrip().
IsSpace(c) == c \in {" ", "\n"}

\* The elements of S in document order.
RECURSIVE InOrder(_)
InOrder(S) ==
    IF S = {} THEN <<>>
    ELSE LET least == CHOOSE x \in S : \A y \in S : x <= y
         IN  <<least>> \o InOrder(S \ {least})

\* Whether e lies below anc along the parent links.
RECURSIVE IsUnder(_, _, _)
IsUnder(par, e, anc) ==
    IF par[e] = anc THEN TRUE
    ELSE IF par[e] <= Root THEN FALSE
    ELSE IsUnder(par, par[e], anc)

\* self.xml.xpath('phystext//l')
xpath_lines(par) ==
    InOrder({e \in DOMAIN par : xml.tag[e] = "l" /\ IsUnder(par, e, Root)})

\* for note in line.findall('.//note'): note.getparent().remove(note)
remove_notes(par, line) ==
    [e \in DOMAIN par |->
        IF xml.tag[e] = "note" /\ IsUnder(par, e, line) THEN Detached ELSE par[e]]

\* for space in line.findall('space'): space.text = ' '
set_spaces(par, txt, line) ==
    [e \in DOMAIN txt |->
        IF xml.tag[e] = "space" /\ par[e] = line THEN <<" ">> ELSE txt[e]]

\* ''.join(e.itertext()): e's text, then each child's itertext and tail.
RECURSIVE itertext(_, _, _)
RECURSIVE children_text(_, _, _)
itertext(par, txt, e) ==
    txt[e] \o children_text(par, txt, InOrder({c \in DOMAIN par : par[c] = e}))

children_text(par, txt, kids) ==
    IF kids = <<>> THEN <<>>
    ELSE itertext(par, txt, kids[1]) \o xml.tail[kids[1]]
             \o children_text(par, txt, Tail(kids))

\* s.lstrip()
RECURSIVE lstrip(_)
lstrip(s) ==
    IF s # <<>> /\ IsSpace(s[1]) THEN lstrip(Tail(s)) ELSE s

\* s.rstrip()
RECURSIVE rstrip(_)
rstrip(s) ==
    IF s # <<>> /\ IsSpace(s[Len(s)]) THEN rstrip(AllButLast(s)) ELSE s

\* s.strip()
strip(s) == rstrip(lstrip(s))

\* re.sub(r'\s+', ' ', s)
RECURSIVE collapse(_)
collapse(s) ==
    IF s = <<>> THEN <<>>
    ELSE IF IsSpace(s[1]) THEN <<" ">> \o collapse(lstrip(s))
    ELSE <<s[1]>> \o collapse(Tail(s))

\* The loop of text() from line i of the xpath result on; the returned
\* string and the tree as the call leaves it.
RECURSIVE text_loop(_, _, _, _, _)
text_loop(lines, i, par, txt, transcription) ==
    IF i > Len(lines)
    THEN [out |-> rstrip(transcription), par |-> par, txt |-> txt]
    ELSE LET line == lines[i]
             par2 == remove_notes(par, line)
             txt2 == set_spaces(par2, txt, line)
             text == itertext(par2, txt2, line)
         IN  IF text = <<>>
             THEN text_loop(lines, i + 1, par2, txt2, transcription)
             ELSE text_loop(lines, i + 1, par2, txt2,
                            transcription \o strip(collapse(text)) \o <<"\n">>)

\* XMLObject.text()
XMLObject_text(par, txt) == text_loop(xpath_lines(par), 1, par, txt, <<>>)

Text ==
    /\ Len(outputs) < MaxTextCalls
    /\ LET r == XMLObject_text(parent, ntext)
       IN  /\ outputs' = Append(outputs, r.out)
           /\ parent' = r.par
           /\ ntext' = r.txt
           /\ last' = [op |-> "text", args |-> <<>>, res |-> Return(r.out)]
    /\ UNCHANGED <<relations, docRows, outfile>>
    /\ UNCHANGED <<csvRows, matrices, exclusions, match, fragCalls, fdoc, xml>>

\* Parent links that number the elements in document order: an element's
\* parent is the element before it or one of that element's ancestors.
RECURSIVE IsDocumentOrder(_, _)
IsDocumentOrder(par, e) ==
    IF e > Len(par) THEN TRUE
    ELSE /\ IF par[e] = Root \/ e = 1 THEN par[e] = Root
            ELSE IF par[e] = e - 1 THEN TRUE
            ELSE IsUnder(par, e - 1, par[e])
         /\ IsDocumentOrder(par, e + 1)

\* A parsed object: etree.parse gives a space placeholder no text.
InitXml ==
    /\ \E n \in 1..MaxNodes :
       \E tag \in [1..n -> Tags], tail \in [1..n -> TailSet] :
       \E par \in [1..n -> 0..(n - 1)], txt \in [1..n -> TextSet] :
          /\ IsDocumentOrder(par, 1)
          /\ \A e \in 1..n : tag[e] = "space" => txt[e] = <<>>
          /\ xml = [tag |-> tag, tail |-> tail, parent |-> par, text |-> txt]
          /\ parent = par
          /\ ntext = txt
    /\ outputs = <<>>
    /\ last = NoCall
    /\ IdleRelations /\ IdleMatch /\ IdleFragment /\ IdleExport

NextXml == Text

SpecXml == InitXml /\ [][NextXml]_vars

\* ------------------------------------------------------------------------
\* Claims about MatrixRelations (checked under SpecRelations)

\* The same_matrix_ids fields, in row order, of the rows of descriptor id k
\* whose field is not empty.
FieldsOf(rows, k) ==
    LET kept == SelectSeq(rows, LAMBDA r : r.desc_id = k /\ r.same_matrix_ids # <<>>)
    IN  [i \in 1..Len(kept) |-> kept[i].same_matrix_ids]

\* C1: same_matrix(a, b) is true iff b is in the co-matrix list stored for a
\* or a is in the list stored for b (absent ids count as an empty list), and
\* it never raises.
C1_SameMatrixEitherDirection ==
    last.op = "same_matrix" =>
        LET a == last.args[1]
            b == last.args[2]
            m == matrices.dict
        IN  /\ last.res.kind = "return"
            /\ (last.res.val = "True") <=>
                   (InList(b, DictGet(m, a)) \/ InList(a, DictGet(m, b)))

\* C10: after load_relations the keys are exactly the descriptor ids with a
\* row whose same_matrix_ids is not empty; each key's list is not empty, its
\* items hold no comma, and joined by commas they read as the key's
\* non-empty fields joined by commas in row order (so the list is the
\* concatenation of the comma-split fields, duplicates kept).
C10_LoadRelationsAccumulates ==
    matrices.set =>
        LET m == matrices.dict
        IN  /\ DOMAIN m = {csvRows[i].desc_id :
                             i \in {j \in 1..Len(csvRows) :
                                       csvRows[j].same_matrix_ids # <<>>}}
            /\ \A k \in DOMAIN m :
                  /\ m[k] # <<>>
                  /\ \A i \in 1..Len(m[k]) : ~InList(",", m[k][i])
                  /\ join(m[k], ",") = join(FieldsOf(csvRows, k), ",")

\* C10's case: a loaded table with a skipped (empty) row and a descriptor id
\* whose list was accumulated from two rows.
C10_Witness ==
    /\ matrices.set
    /\ \E i \in 1..Len(csvRows) : csvRows[i].same_matrix_ids = <<>>
    /\ \E k \in DOMAIN matrices.dict :
          /\ Len(FieldsOf(csvRows, k)) = 2
          /\ Len(matrices.dict[k]) = 3

\* ------------------------------------------------------------------------
\* Claims about SuperfastDocmatch (checked under SpecMatch)

\* Whether the exclusion index lists either descriptor id under the other.
ListedEitherWay(m) ==
    LET p == m.primary_doc.desc_id
        c == m.matching_doc.desc_id
        d == exclusions.dict
    IN  \/ (p \in DOMAIN d /\ \E i \in 1..Len(d[p]) : d[p][i] = c)
        \/ (c \in DOMAIN d /\ \E i \in 1..Len(d[c]) : d[c][i] = p)

\* C2: with an exclusion index attached, one holding no entries included,
\* excluded() returns (it does not raise), and what it returns is true iff
\* either descriptor id is in the other's list.
C2_ExcludedWithIndex ==
    (last.op = "excluded" /\ exclusions.set) =>
        /\ last.res.kind = "return"
        /\ Truthy(last.res.val) <=> ListedEitherWay(match)

\* C3: with no exclusion index ever attached, excluded() raises instead of
\* returning a value.
C3_ExcludedWithoutIndexRaises ==
    (last.op = "excluded" /\ ~exclusions.set) => last.res.kind = "raise"

\* C3's case: excluded() was called on a match while no index was attached.
C3_Witness ==
    /\ last.op = "excluded"
    /\ match.made
    /\ exclusions = Unset
    /\ last.res = Raise("AttributeError")

\* C8: however the match was constructed, every fragments() call yields one
\* fragment per descriptor of the match's record, in the record's order.
C8_FragmentsPerDescriptor ==
    \A c \in 1..Len(fragCalls) :
        /\ fragCalls[c].kind = "return"
        /\ Len(fragCalls[c].val) = Len(match.data.fragments)
        /\ \A i \in 1..Len(match.data.fragments) :
              /\ fragCalls[c].val[i].lst = match.data.fragments[i]
              /\ fragCalls[c].val[i].doc = match.matching_doc

\* C9: a constructor call with neither a raw record nor a counterpart
\* document raises and makes no object; with either, it makes the object,
\* whose counterpart is the supplied document, or else the document the
\* record names.
C9_ConstructorArguments ==
    last.op = "new" =>
        LET row_dct == last.args[2]
            match_doc == last.args[3]
        IN  IF row_dct = <<>> /\ match_doc = <<>>
            THEN last.res.kind = "raise" /\ ~match.made
            ELSE /\ last.res.kind = "return"
                 /\ match.made
                 /\ match.primary_doc = last.args[1]
                 /\ match.matching_doc \in Docs
                 /\ IF match_doc # <<>>
                    THEN match.matching_doc = match_doc[1]
                    ELSE match.matching_doc.docid = row_dct[1].docid

\* C9's case: the constructor was called with neither argument.
C9_Witness ==
    /\ last.op = "new"
    /\ last.args[2] = <<>>
    /\ last.args[3] = <<>>
    /\ last.res = Raise("ValueError")
    /\ ~match.made

\* ------------------------------------------------------------------------
\* Claims about MatchFragment (checked under SpecFragment)

\* Whether the descriptor field f stands for the number v.
Represents(f, v) == f \in FieldForms(v)

\* C7: the fragment's text is document.text[s : s+n], s the number the
\* descriptor's second field (the counterpart offset) stands for and n the
\* one its third field stands for: the characters at offsets s .. s+n-1 that
\* lie inside the text, so a range past the end is cut short or empty; the
\* construction never raises.
C7_FragmentIsCounterpartSlice ==
    last.op = "MatchFragment" =>
        LET lst == last.args[1]
            doctext == fdoc.text
            text == last.res.val.text
        IN  /\ last.res.kind = "return"
            /\ \E s, n \in 0..MaxOff : Represents(lst[2], s) /\ Represents(lst[3], n)
            /\ \A s, n \in 0..MaxOff :
                  (Represents(lst[2], s) /\ Represents(lst[3], n)) =>
                      /\ Len(text) = Max(0, Min(Len(doctext), s + n) - s)
                      /\ \A i \in 1..Len(text) : text[i] = doctext[s + i]

\* C7's case: numeric text fields, a primary offset that differs from the
\* counterpart offset, and a range that runs past the end of the text.
C7_Witness ==
    /\ last.op = "MatchFragment"
    /\ last.args[1][2].kind = "str"
    /\ last.args[1][3].kind = "str"
    /\ PyInt(last.args[1][1]) # PyInt(last.args[1][2])
    /\ PyInt(last.args[1][2]) < Len(fdoc.text)
    /\ PyInt(last.args[1][2]) + PyInt(last.args[1][3]) > Len(fdoc.text)
    /\ Len(last.res.val.text) = Len(fdoc.text) - PyInt(last.args[1][2])
    /\ Len(last.res.val.text) > 0

\* ------------------------------------------------------------------------
\* Claims about XMLObject.text() (checked under SpecXml)

\* The text of line node line that element e and its subtree hold outside
\* note subtrees, in document order, as the file has it: a space placeholder
\* directly under the line counts as one space, a note counts for nothing
\* and the text after a note counts.
RECURSIVE OutsideNotes(_, _)
RECURSIVE OutsideNotesOf(_, _)
OutsideNotes(line, e) ==
    (IF xml.tag[e] = "space" /\ xml.parent[e] = line THEN <<" ">> ELSE xml.text[e])
        \o OutsideNotesOf(line, InOrder({c \in DOMAIN xml.tag : xml.parent[c] = e}))

OutsideNotesOf(line, kids) ==
    IF kids = <<>> THEN <<>>
    ELSE (IF xml.tag[kids[1]] = "note" THEN <<>> ELSE OutsideNotes(line, kids[1]))
             \o xml.tail[kids[1]] \o OutsideNotesOf(line, Tail(kids))

\* The pieces of a list that are not empty, in order.
NonEmpty(lst) == SelectSeq(lst, LAMBDA x : x # <<>>)

\* The line each line node stands for, in document order.
LinesOutsideNotes ==
    LET lines == InOrder({e \in DOMAIN xml.tag : xml.tag[e] = "l"})
    IN  [i \in 1..Len(lines) |-> strip(collapse(OutsideNotes(lines[i], lines[i])))]

\* C4: the lines text() produces for a parsed object are, line node by line
\* node, the text of that line outside the note subtrees in it (text before
\* and after a note and of nested elements included, a direct-child space
\* placeholder as one space), whitespace runs collapsed and the ends trimmed.
\* Lines are compared where they are not empty (C5 is about the empty ones).
C4_LinesAreTextOutsideNotes ==
    Len(outputs) >= 1 =>
        NonEmpty(split(outputs[1], "\n")) = NonEmpty(LinesOutsideNotes)

\* C5: a line that is empty after note removal, placeholder substitution and
\* whitespace normalisation adds nothing: the result has no empty line and
\* no leading or trailing newline; and the object made of a whitespace-only
\* line and the line a<space/>b, in either order, gives exactly "a b".
C5_NoEmptyLines ==
    \A c \in 1..Len(outputs) :
        /\ outputs[c] # <<>> =>
              \A i \in 1..Len(split(outputs[c], "\n")) :
                  split(outputs[c], "\n")[i] # <<>>
        /\ (c = 1 /\ xml \in {[tag |-> <<"l", "l", "space">>,
                               parent |-> <<Root, Root, 2>>,
                               text |-> <<<<" ">>, <<"a">>, <<>>>>,
                               tail |-> <<<<>>, <<>>, <<"b">>>>],
                              [tag |-> <<"l", "space", "l">>,
                               parent |-> <<Root, 1, Root>>,
                               text |-> <<<<"a">>, <<>>, <<" ">>>>,
                               tail |-> <<<<>>, <<"b">>, <<>>>>]})
               => outputs[c] = <<"a", " ", "b">>

\* C6: successive text() calls on the same parsed object return the same
\* string.
C6_TextIsIdempotent ==
    \A c, d \in 1..Len(outputs) : outputs[c] = outputs[d]


\* ------------------------------------------------------------------------
\* Claims about BlakeDoc.parse_title (checked under SpecTitle)

Dots(t) == {i \in 1..Len(t) : t[i] = "."}

NoDot(t) == Dots(t) = {}

\* t without its last dot and what follows it; nothing when t has no dot.
BeforeLastDot(t) ==
    IF NoDot(t) THEN <<>>
    ELSE SubSeq(t, 1, (CHOOSE i \in Dots(t) : \A j \in Dots(t) : j <= i) - 1)

Dot == <<".">>

\* C11: parse_title sets desc_id to the title without its final dot
\* segment; a title of exactly five dot segments (four dots) gives work,
\* copy, form and page as its first four segments, and any other title
\* leaves all four None.
C11_ParseTitle ==
    last.op = "parse_title" =>
        LET t == last.args[1]
            r == last.res.val
        IN  /\ last.res.kind = "return"
            /\ r.desc_id = BeforeLastDot(t)
            /\ IF Cardinality(Dots(t)) = 4
               THEN /\ \A f \in {r.work, r.copy, r.form, r.page} :
                          Len(f) = 1 /\ NoDot(f[1])
                    /\ \E rest \in {SubSeq(t, i, Len(t)) : i \in 1..(Len(t) + 1)} :
                          /\ NoDot(rest)
                          /\ t = r.work[1] \o Dot \o r.copy[1] \o Dot
                                  \o r.form[1] \o Dot \o r.page[1] \o Dot \o rest
               ELSE r.work = None /\ r.copy = None /\ r.form = None /\ r.page = None

\* A title of five segments was parsed: work and copy differ and page is
\* not empty.
C11_Witness ==
    /\ last.op = "parse_title"
    /\ Cardinality(Dots(last.args[1])) = 4
    /\ last.res.val.work # None
    /\ last.res.val.work # last.res.val.copy
    /\ last.res.val.page # Some(<<>>)


\* ------------------------------------------------------------------------
\* Claims about export_fragments and the driver (checked under SpecExport)

RECURSIVE Concat(_)
Concat(seqs) == IF seqs = <<>> THEN <<>> ELSE Head(seqs) \o Concat(Tail(seqs))

\* t with every newline turned into the marker <br>.
WithBr(t) ==
    Concat([i \in 1..Len(t) |-> IF t[i] = "\n" THEN <<"<", "b", "r", ">">> ELSE <<t[i]>>])

\* The rows one match owes: one per fragment descriptor, in order.
RowsOwed(doc, row) ==
    LET other == ServerDoc(row.docid)
    IN  [k \in 1..Len(row.fragments) |->
            <<doc.desc_id, other.desc_id, WithBr(MatchFragment(other, row.fragments[k]).text)>>]

\* A match is skipped when a relation table was supplied to the call and
\* the index lists either descriptor id under the other.
Skipped(doc, row, supplied) ==
    supplied /\ ListedEitherWay([primary_doc |-> doc, matching_doc |-> ServerDoc(row.docid)])

\* The rows the export owes after the header: documents, then matches, then
\* fragments.
ExpectedRows(supplied) ==
    Concat([i \in 1..Len(documents) |->
        LET doc == documents[i]
            rows == docRows[doc.docid]
        IN  Concat([j \in 1..Len(rows) |->
                IF Skipped(doc, rows[j], supplied) THEN <<>> ELSE RowsOwed(doc, rows[j])])])

\* C12: when the relation table file is absent, the driver's run ends
\* with the output csv written: the header and one row per fragment of
\* every match of every document, none skipped.
C12_DriverExportsUnfiltered ==
    (last.op = "main" /\ ~relations.exists) =>
        /\ last.res.kind = "return"
        /\ outfile.exists /\ outfile.header
        /\ outfile.rows = ExpectedRows(FALSE)

\* C13: export_fragments (given no relation table, or one that is there)
\* returns having written the header and then exactly the rows owed by
\* the matches not skipped, in order; a match is skipped iff a relation
\* table was supplied to this call and excluded() is true, whatever index
\* an earlier call left attached.
C13_ExportRows ==
    (last.op = "export_fragments" /\ (last.args[1] = None \/ relations.exists)) =>
        /\ last.res.kind = "return"
        /\ outfile.exists /\ outfile.header
        /\ outfile.rows = ExpectedRows(last.args[1] # None)

====
